---------------------------- MODULE Spec2Model ----------------------------
(***************************************************************************)
(* A model of the ball-collection path planner (FRC/simulation/planner.py).*)
(*                                                                         *)
(* Numbers.  The planner works on float64 coordinates in metres.  The      *)
(* model places every point on the integer grid (0..GridX) x (0..GridY),   *)
(* one grid unit being one metre (the tours of two_opt_improve on the grid *)
(* (0..TourGridX) x (0..TourGridY)), and computes with exact arithmetic:   *)
(* a Euclidean distance is kept as its square (an integer), and every      *)
(* comparison the code makes between distances, sums of distances or       *)
(* scores is decided exactly (CmpSqrt, CmpLen).  On such a grid two        *)
(* quantities the code compares are either equal as reals (and then equal  *)
(* or within one rounding error as floats) or differ by far more than      *)
(* 1e-10, so the exact comparison is the one the float code makes.         *)
(*                                                                         *)
(* Indices.  Python sequences are 0-based, TLA+ sequences 1-based: index k *)
(* of the code is index k+1 of the model.  An array obtained by selecting  *)
(* rows of another (balls[mask], points[ordered], waypoints[kept]) is kept *)
(* as the sequence of selected row indices; Rows(a, idx) gives the rows.   *)
(***************************************************************************)
EXTENDS Integers, Sequences, FiniteSets, TLC

\* ------------------------------------------------------------------------
\* Bounds of the model
\* ------------------------------------------------------------------------
GridX == 2
GridY == 1
MaxBalls == 3
MaxEntryBalls == 1
MaxPathBalls == 2
MaxSimBalls == 2
MaxDt == 2
TourGridX == 1
TourGridY == 1
MaxTour == 4
MaxWaypoints == 4
MaxInterp == 2

\* ------------------------------------------------------------------------
\* Program constants
\* ------------------------------------------------------------------------
\* distance_bias = 0.5 = BiasNum / BiasDen
BiasNum == 1
BiasDen == 2

Points == (0..GridX) \X (0..GridY)

\* The grid the tours given to two_opt_improve are drawn from.
TourPoints == (0..TourGridX) \X (0..TourGridY)

\* Radii the callers pass, as fractions <<num, den>> of a grid unit:
\* 1.0 and the default 1.5.
Radii == {<<1, 1>>, <<3, 2>>}

\* ------------------------------------------------------------------------
\* Exact arithmetic
\* ------------------------------------------------------------------------
Sign(x) == IF x > 0 THEN 1 ELSE IF x < 0 THEN -1 ELSE 0

\* np.linalg.norm(p - q), squared
Dist2(p, q) == (p[1] - q[1]) * (p[1] - q[1]) + (p[2] - q[2]) * (p[2] - q[2])

\* The sign of sqrt(P) - sqrt(Q) - K for integers P, Q >= 0 and K >= 0.
CmpSqrtPos(P, Q, K) ==
  LET M == P - Q - K * K IN
  IF M < 0 THEN -1
  ELSE IF M = 0 THEN (IF K = 0 \/ Q = 0 THEN 0 ELSE -1)
  ELSE Sign(M * M - 4 * K * K * Q)

\* The sign of sqrt(P) - sqrt(Q) - K for integers P, Q >= 0 and any integer K.
CmpSqrt(P, Q, K) ==
  IF K >= 0 THEN CmpSqrtPos(P, Q, K) ELSE 0 - CmpSqrtPos(Q, P, 0 - K)

\* The set S of integers as an ascending sequence.
RECURSIVE SortedSeq(_)
SortedSeq(S) ==
  IF S = {} THEN <<>>
  ELSE LET m == CHOOSE x \in S : \A y \in S : x <= y
       IN <<m>> \o SortedSeq(S \ {m})

\* a[idx]: the rows of a selected by the index sequence idx.
Rows(a, idx) == [k \in 1..Len(idx) |-> a[idx[k]]]

\* The last index of a minimum instead of the first.
ArgMinDistLast(pts, ref) ==
  CHOOSE k \in 1..Len(pts) :
    /\ \A m \in 1..Len(pts) : Dist2(pts[k], ref) <= Dist2(pts[m], ref)
    /\ \A m \in (k + 1)..Len(pts) : Dist2(pts[m], ref) > Dist2(pts[k], ref)

\* int(np.argmin(d)) over d[k] = |pts[k] - ref|: the first index of a minimum.
ArgMinDist(pts, ref) ==
  CHOOSE k \in 1..Len(pts) :
    /\ \A m \in 1..Len(pts) : Dist2(pts[k], ref) <= Dist2(pts[m], ref)
    /\ \A m \in 1..(k - 1) : Dist2(pts[m], ref) > Dist2(pts[k], ref)

\* ------------------------------------------------------------------------
\* Clustering (Phase 1)
\* ------------------------------------------------------------------------
\* d[i] <= radius, with d[i] = |p - q| and radius = r[1] / r[2]
WithinRadius(p, q, r) == Dist2(p, q) * r[2] * r[2] <= r[1] * r[1]

\* BFS as a neighbour test of the seed alone: nothing found is enqueued.
RECURSIVE BFSNoExpand(_, _, _, _, _)
BFSNoExpand(balls, r, queue, marked, members) ==
  IF queue = <<>> THEN [marked |-> marked, members |-> members]
  ELSE LET curr == Head(queue)
           new == {i \in 1..Len(balls) :
                     i \notin marked /\ WithinRadius(balls[i], balls[curr], r)}
       IN BFSNoExpand(balls, r, Tail(queue), marked \cup new, members \cup new)

\* One run of the BFS loop "while queue": pops curr, marks and enqueues, in
\* index order, every i not yet marked with d[i] <= radius.  marked is the
\* array the loop tests (visited, or in_cluster in find_nearest_cluster);
\* members collects in_cluster.
RECURSIVE BFS(_, _, _, _, _)
BFS(balls, r, queue, marked, members) ==
  IF queue = <<>> THEN [marked |-> marked, members |-> members]
  ELSE LET curr == Head(queue)
           new == {i \in 1..Len(balls) :
                     i \notin marked /\ WithinRadius(balls[i], balls[curr], r)}
       IN BFS(balls, r, Tail(queue) \o SortedSeq(new),
              marked \cup new, members \cup new)

\* The flood fill seeded at the first ball instead of the nearest.
find_cluster_of_first(balls, robot, r) ==
  IF Len(balls) = 0 THEN <<>>
  ELSE LET run == BFS(balls, r, <<1>>, {1}, {1})
       IN SortedSeq(run.members)

find_nearest_cluster(balls, robot, r) ==
  IF Len(balls) = 0 THEN <<>>
  ELSE LET seed_idx == ArgMinDist(balls, robot)
           run == BFS(balls, r, <<seed_idx>>, {seed_idx}, {seed_idx})
       IN SortedSeq(run.members)

\* The seed loop with visited marked for the seeds alone, not for the points
\* a flood fill reached.
RECURSIVE ClustersFromSeedOnly(_, _, _, _, _)
ClustersFromSeedOnly(balls, r, seed, visited, clusters) ==
  IF seed > Len(balls) THEN clusters
  ELSE IF seed \in visited
       THEN ClustersFromSeedOnly(balls, r, seed + 1, visited, clusters)
       ELSE LET run == BFS(balls, r, <<seed>>, {seed}, {seed})
            IN ClustersFromSeedOnly(balls, r, seed + 1, visited \cup {seed},
                                    Append(clusters, SortedSeq(run.members)))

\* The loop "for seed in range(len(balls))" from seed on.
RECURSIVE ClustersFrom(_, _, _, _, _)
ClustersFrom(balls, r, seed, visited, clusters) ==
  IF seed > Len(balls) THEN clusters
  ELSE IF seed \in visited
       THEN ClustersFrom(balls, r, seed + 1, visited, clusters)
       ELSE LET run == BFS(balls, r, <<seed>>, visited \cup {seed}, {seed})
            IN ClustersFrom(balls, r, seed + 1, run.marked,
                            Append(clusters, SortedSeq(run.members)))

find_all_clusters(balls, r) ==
  IF Len(balls) = 0 THEN <<>>
  ELSE ClustersFrom(balls, r, 1, {}, <<>>)

\* (score, min_distance) of a cluster: score = size / (sqrt(md2) + bias) is
\* kept as the pair size, md2 (the squared minimum distance).
score_cluster(balls, cluster, robot) ==
  LET pts == Rows(balls, cluster)
      k == ArgMinDist(pts, robot)
  IN [size |-> Len(cluster), md2 |-> Dist2(pts[k], robot)]

\* s > best_score for two scores size / (sqrt(md2) + BiasNum / BiasDen):
\* a.size * (BiasDen * sqrt(b.md2) + BiasNum)
\*    > b.size * (BiasDen * sqrt(a.md2) + BiasNum)
ScoreGreater(a, b) ==
  CmpSqrt(a.size * a.size * BiasDen * BiasDen * b.md2,
          b.size * b.size * BiasDen * BiasDen * a.md2,
          (b.size - a.size) * BiasNum) = 1

\* The selection loop with s >= best_score: the last of equal scores wins.
RECURSIVE BestFromLastTie(_, _, _, _, _)
BestFromLastTie(balls, clusters, robot, k, best) ==
  IF k > Len(clusters) THEN best
  ELSE LET s == score_cluster(balls, clusters[k], robot)
       IN IF best.idx = 0 \/ ~ScoreGreater(best.score, s)
          THEN BestFromLastTie(balls, clusters, robot, k + 1, [idx |-> k, score |-> s])
          ELSE BestFromLastTie(balls, clusters, robot, k + 1, best)

\* The loop "for c in clusters" from index k on; best.idx = 0 stands for
\* best_cluster = None with best_score = -1.0, which every score exceeds.
RECURSIVE BestFrom(_, _, _, _, _)
BestFrom(balls, clusters, robot, k, best) ==
  IF k > Len(clusters) THEN best
  ELSE LET s == score_cluster(balls, clusters[k], robot)
       IN IF best.idx = 0 \/ ScoreGreater(s, best.score)
          THEN BestFrom(balls, clusters, robot, k + 1, [idx |-> k, score |-> s])
          ELSE BestFrom(balls, clusters, robot, k + 1, best)

NoneValue == [none |-> TRUE]

select_best_cluster(balls, robot, r) ==
  LET clusters == find_all_clusters(balls, r) IN
  IF clusters = <<>> THEN NoneValue
  ELSE LET best == BestFrom(balls, clusters, robot, 1,
                            [idx |-> 0, score |-> [size |-> 0, md2 |-> 0]])
       IN [none |-> FALSE,
           cluster |-> clusters[best.idx],
           score |-> best.score,
           min_distance2 |-> best.score.md2,
           size |-> Len(clusters[best.idx]),
           num_clusters |-> Len(clusters)]

\* ------------------------------------------------------------------------
\* Ordering
\* ------------------------------------------------------------------------
\* remaining.pop(): the last element removed, whichever was chosen.
PopLast(seq, k) == [m \in 1..(Len(seq) - 1) |-> seq[m]]

\* remaining.pop(k): the sequence without its k-th element.
Pop(seq, k) == [m \in 1..(Len(seq) - 1) |-> IF m < k THEN seq[m] ELSE seq[m + 1]]

\* The loop "while remaining" of nearest_neighbor_order.
RECURSIVE NNLoop(_, _, _, _)
NNLoop(points, remaining, ordered, current) ==
  IF remaining = <<>> THEN ordered
  ELSE LET nearest_idx == ArgMinDist(Rows(points, remaining), current)
           chosen == remaining[nearest_idx]
       IN NNLoop(points, Pop(remaining, nearest_idx),
                 Append(ordered, chosen), points[chosen])

\* The index sequence "ordered"; the function returns points[ordered].
nearest_neighbor_order(points, start) ==
  IF Len(points) = 0 THEN <<>>
  ELSE NNLoop(points, [k \in 1..Len(points) |-> k], <<>>, start)

\* ------------------------------------------------------------------------
\* Intake-aware waypoint pruning
\* ------------------------------------------------------------------------
Dot(u, v) == u[1] * v[1] + u[2] * v[2]
Sub(p, q) == <<p[1] - q[1], p[2] - q[2]>>

\* The squared distance from point to the segment, as a fraction
\* [num, den] with den > 0.  len_sq < 1e-12 is len_sq = 0 on the grid;
\* t = clip(dot(u, v) / len_sq, 0, 1).
point_to_segment_dist(point, seg_start, seg_end) ==
  LET v == Sub(seg_end, seg_start)
      u == Sub(point, seg_start)
      len_sq == Dot(v, v)
      uv == Dot(u, v)
  IN IF len_sq = 0 THEN [num |-> Dot(u, u), den |-> 1]
     ELSE IF uv <= 0 THEN [num |-> Dot(u, u), den |-> 1]
     ELSE IF uv >= len_sq THEN [num |-> Dist2(point, seg_end), den |-> 1]
     ELSE [num |-> Dot(u, u) * len_sq - uv * uv, den |-> len_sq]

\* dist > intake_half_width: a waypoint at exactly the half-width is dropped.
DistMoreThan(d, w) == d.num * w[2] * w[2] > w[1] * w[1] * d.den

\* dist >= intake_half_width, for dist^2 = d.num / d.den and a half-width
\* w[1] / w[2]
DistAtLeast(d, w) == d.num * w[2] * w[2] >= w[1] * w[1] * d.den

Last(seq) == seq[Len(seq)]

\* The loop "for j in range(1, len(kept) - 1)" of one pass, from j on
\* (j is the model's 1-based position in kept).
RECURSIVE PassFrom(_, _, _, _, _, _)
PassFrom(waypoints, kept, w, j, new_kept, changed) ==
  IF j > Len(kept) - 1 THEN [new_kept |-> new_kept, changed |-> changed]
  ELSE LET seg_start == waypoints[Last(new_kept)]
           seg_end == waypoints[kept[j + 1]]
           dist == point_to_segment_dist(waypoints[kept[j]], seg_start, seg_end)
       IN IF DistAtLeast(dist, w)
          THEN PassFrom(waypoints, kept, w, j + 1, Append(new_kept, kept[j]), changed)
          ELSE PassFrom(waypoints, kept, w, j + 1, new_kept, TRUE)

\* A pass that forgets to append the last waypoint.
PrunePassNoLast(waypoints, kept, w) ==
  LET run == PassFrom(waypoints, kept, w, 2, <<kept[1]>>, FALSE)
  IN [kept |-> run.new_kept, changed |-> run.changed]

\* A pass that never reports a change: the loop stops after one pass.
PrunePassOnce(waypoints, kept, w) ==
  LET run == PassFrom(waypoints, kept, w, 2, <<kept[1]>>, FALSE)
  IN [kept |-> Append(run.new_kept, Last(kept)), changed |-> FALSE]

\* A pass that sets changed whether or not it removed a waypoint.
PrunePassAlwaysChanged(waypoints, kept, w) ==
  LET run == PassFrom(waypoints, kept, w, 2, <<kept[1]>>, FALSE)
  IN [kept |-> Append(run.new_kept, Last(kept)), changed |-> TRUE]

\* One run of the body of "while changed": the new kept list and changed.
PrunePass(waypoints, kept, w) ==
  LET run == PassFrom(waypoints, kept, w, 2, <<kept[1]>>, FALSE)
  IN [kept |-> Append(run.new_kept, Last(kept)), changed |-> run.changed]

\* The loop "while changed".
RECURSIVE PruneLoop(_, _, _)
PruneLoop(waypoints, kept, w) ==
  LET pass == PrunePass(waypoints, kept, w)
  IN IF pass.changed THEN PruneLoop(waypoints, pass.kept, w) ELSE pass.kept

\* The index sequence "kept"; the function returns waypoints[kept].
prune_waypoints(waypoints, w) ==
  IF Len(waypoints) <= 2 THEN [k \in 1..Len(waypoints) |-> k]
  ELSE PruneLoop(waypoints, [k \in 1..Len(waypoints) |-> k], w)

\* ------------------------------------------------------------------------
\* Utility: path_distance
\* ------------------------------------------------------------------------
\* A length, the float a sum of norms gives, is kept as the sequence of the
\* squared norms it sums: it stands for the sum of their square roots.
ZeroLength == <<>>

\* np.sum(np.linalg.norm(np.diff(points, axis=0), axis=1)) from edge k on
RECURSIVE SumEdges(_, _)
SumEdges(points, k) ==
  IF k >= Len(points) THEN ZeroLength
  ELSE <<Dist2(points[k], points[k + 1])>> \o SumEdges(points, k + 1)

path_distance(points) ==
  IF Len(points) < 2 THEN ZeroLength ELSE SumEdges(points, 1)

\* The order of two lengths.  sqrt(d2) = k * sqrt(m) for the largest square
\* k * k dividing d2 and the square-free m = d2 / (k * k); square roots of
\* distinct square-free integers are linearly independent over the
\* rationals, so two lengths are equal exactly when, for every m, their
\* coefficients of sqrt(m) agree.  Unequal lengths are told apart by
\* integer bounds of RootScale times each: floor and ceiling of
\* RootScale * sqrt(d2), found by bisection.
MaxDist2 ==
  LET x == IF GridX > TourGridX THEN GridX ELSE TourGridX
      y == IF GridY > TourGridY THEN GridY ELSE TourGridY
  IN x * x + y * y

RootScale == 1000

\* The largest k with k * k dividing n (n > 0).
SquarePart(n) ==
  CHOOSE k \in 1..n :
    /\ n % (k * k) = 0
    /\ \A h \in (k + 1)..n : n % (h * h) # 0

\* floor(sqrt(n)), between lo and hi: lo * lo <= n < hi * hi
RECURSIVE Bisect(_, _, _)
Bisect(n, lo, hi) ==
  IF hi - lo <= 1 THEN lo
  ELSE LET mid == (lo + hi) \div 2
       IN IF mid * mid <= n THEN Bisect(n, mid, hi) ELSE Bisect(n, lo, mid)

\* For d2 = 1..n, in this order: the square part k of d2, the square-free
\* part m, and floor and ceiling of RootScale * sqrt(d2).
RECURSIVE RootRows(_)
RootRows(n) ==
  IF n = 0 THEN <<>>
  ELSE LET k == SquarePart(n)
           f == Bisect(RootScale * RootScale * n, 0, RootScale * (n + 1))
       IN Append(RootRows(n - 1),
                 [k |-> k, m |-> n \div (k * k), floor |-> f,
                  ceil |-> IF f * f = RootScale * RootScale * n THEN f ELSE f + 1])
RootTable == RootRows(MaxDist2)

\* The coefficient of sqrt(m) in a length, from term i on.
RECURSIVE Coefficient(_, _, _)
Coefficient(len, m, i) ==
  IF i > Len(len) THEN 0
  ELSE (IF len[i] > 0 /\ RootTable[len[i]].m = m THEN RootTable[len[i]].k ELSE 0)
       + Coefficient(len, m, i + 1)

\* Lower and upper integer bounds of RootScale times a length, from term i on.
RECURSIVE LowerBound(_, _)
LowerBound(len, i) ==
  IF i > Len(len) THEN 0
  ELSE (IF len[i] > 0 THEN RootTable[len[i]].floor ELSE 0) + LowerBound(len, i + 1)
RECURSIVE UpperBound(_, _)
UpperBound(len, i) ==
  IF i > Len(len) THEN 0
  ELSE (IF len[i] > 0 THEN RootTable[len[i]].ceil ELSE 0) + UpperBound(len, i + 1)

\* Whether every square-free part occurring in the length a has the same
\* coefficient in a and in b.
SameCoefficients(a, b) ==
  \A i \in 1..Len(a) :
    a[i] > 0 => Coefficient(a, RootTable[a[i]].m, 1) = Coefficient(b, RootTable[a[i]].m, 1)

\* The sign of a - b for two lengths; 2 would say that RootScale is too
\* coarse to tell two unequal lengths apart.
CmpLen(a, b) ==
  IF a = b THEN 0
  ELSE IF LowerBound(a, 1) > UpperBound(b, 1) THEN 1
  ELSE IF UpperBound(a, 1) < LowerBound(b, 1) THEN -1
  ELSE IF SameCoefficients(a, b) /\ SameCoefficients(b, a) THEN 0
  ELSE 2

\* ------------------------------------------------------------------------
\* 2-opt improvement
\* ------------------------------------------------------------------------
\* d_new <= d_old: the comparison without the strictness and the epsilon.
ImprovesOrEqual(tour, i, j) ==
  LET a == Dist2(tour[i], tour[j])
      c == Dist2(tour[i], tour[i + 1])
  IN IF j < Len(tour)
     THEN LET b == Dist2(tour[i + 1], tour[j + 1])
              d == Dist2(tour[j], tour[j + 1])
          IN CmpSqrt(4 * a * b, 4 * c * d, c + d - a - b) <= 0
     ELSE a <= c

\* The comparison turned round: d_new > d_old.
ImprovesReversed(tour, i, j) ==
  LET a == Dist2(tour[i], tour[j])
      c == Dist2(tour[i], tour[i + 1])
  IN IF j < Len(tour)
     THEN LET b == Dist2(tour[i + 1], tour[j + 1])
              d == Dist2(tour[j], tour[j + 1])
          IN CmpSqrt(4 * a * b, 4 * c * d, c + d - a - b) = 1
     ELSE a > c

\* d_new < d_old - 1e-10 for the pair i, j (i + 2 <= j <= n):
\* with j + 1 < n in the code (j < n here)
\*   sqrt(a) + sqrt(b) < sqrt(c) + sqrt(d), that is
\*   sqrt(4ab) - sqrt(4cd) < c + d - a - b;
\* with j the last point, sqrt(a) < sqrt(c).
Improves(tour, i, j) ==
  LET a == Dist2(tour[i], tour[j])
      c == Dist2(tour[i], tour[i + 1])
  IN IF j < Len(tour)
     THEN LET b == Dist2(tour[i + 1], tour[j + 1])
              d == Dist2(tour[j], tour[j + 1])
          IN CmpSqrt(4 * a * b, 4 * c * d, c + d - a - b) = -1
     ELSE a < c

\* The reversal that starts one position early, at the code's i.
ReverseSegmentFromI(tour, i, j) ==
  [k \in 1..Len(tour) |-> IF k >= i /\ k <= j THEN tour[i + j - k] ELSE tour[k]]

\* tour[i + 1:j + 1] = tour[i + 1:j + 1][::-1] (the code's i, j): the
\* model's positions i + 1 .. j reversed.
ReverseSegment(tour, i, j) ==
  [k \in 1..Len(tour) |-> IF k >= i + 1 /\ k <= j THEN tour[i + 1 + j - k] ELSE tour[k]]

\* The loop variables after the pair i, j: "for j in range(i + 2, n)" inside
\* "for i in range(n - 1)".  i = n - 1 (the code's n - 2) has no j, so that
\* j > n says that both loops are exhausted.
NextPair(i, j, n) ==
  IF j < n THEN <<i, j + 1>> ELSE <<i + 1, i + 3>>

\* The inner loop as "for j in range(i + 2, n - 1)": the pairs with j the
\* last point are never tested.
RECURSIVE FirstImprovingInner(_, _, _)
FirstImprovingInner(t, i, j) ==
  IF j > Len(t) THEN <<i, j>>
  ELSE IF j < Len(t) /\ Improves(t, i, j) THEN <<i, j>>
  ELSE IF j < Len(t) THEN FirstImprovingInner(t, i, j + 1)
  ELSE FirstImprovingInner(t, i + 1, i + 3)

\* The first pair from i, j on, in the order of the loops, that passes the
\* test "if d_new < d_old - 1e-10"; the pair of exhaustion when none does.
RECURSIVE FirstImproving(_, _, _)
FirstImproving(t, i, j) ==
  IF j > Len(t) THEN <<i, j>>
  ELSE IF Improves(t, i, j) THEN <<i, j>>
  ELSE IF j < Len(t) THEN FirstImproving(t, i, j + 1)
  ELSE FirstImproving(t, i + 1, i + 3)

\* The loops of two_opt_improve from the pair i, j on: every pair that passes
\* the test is reversed and sets improved; a sweep that ends with improved
\* set is followed by another, from i = 0, j = 2 with improved = False.
RECURSIVE TwoOptLoop(_, _, _, _)
TwoOptLoop(t, i, j, improved) ==
  LET p == FirstImproving(t, i, j)
  IN IF p[2] <= Len(t)
     THEN TwoOptLoop(ReverseSegment(t, p[1], p[2]),
                     NextPair(p[1], p[2], Len(t))[1],
                     NextPair(p[1], p[2], Len(t))[2], TRUE)
     ELSE IF improved THEN TwoOptLoop(t, 1, 3, FALSE)
     ELSE t

two_opt_improve(tour) ==
  IF Len(tour) < 4 THEN tour ELSE TwoOptLoop(tour, 1, 3, FALSE)

\* ------------------------------------------------------------------------
\* Path smoothing
\* ------------------------------------------------------------------------
\* A point of a path is kept as the exact fraction [x, y] / den.  A waypoint
\* copied into a path has den = 1.
PathPoint(p) == [x |-> p[1], y |-> p[2], den |-> 1]

\* One coordinate of the Catmull-Rom formula at t = t_idx / k, times
\* 2 * k^3:  q = 0.5 * (2 p1 + (-p0 + p2) t + (2 p0 - 5 p1 + 4 p2 - p3) t^2
\*                      + (-p0 + 3 p1 - 3 p2 + p3) t^3)
CatmullRomCoord(c0, c1, c2, c3, t_idx, k) ==
  2 * c1 * k * k * k
  + (c2 - c0) * t_idx * k * k
  + (2 * c0 - 5 * c1 + 4 * c2 - c3) * t_idx * t_idx * k
  + (3 * c1 - c0 - 3 * c2 + c3) * t_idx * t_idx * t_idx

\* q for the control points p0..p3 at t = t_idx / k.  At t_idx = 0 the
\* formula is 0.5 * (2 * p1), which is p1 in floats as in the reals.
CatmullRom(p0, p1, p2, p3, t_idx, k) ==
  IF t_idx = 0 THEN PathPoint(p1)
  ELSE [x |-> CatmullRomCoord(p0[1], p1[1], p2[1], p3[1], t_idx, k),
        y |-> CatmullRomCoord(p0[2], p1[2], p2[2], p3[2], t_idx, k),
        den |-> 2 * k * k * k]

\* The loops "for i in range(1, len(pts) - 2)" and "for t_idx in
\* range(num_interp)" from i, t_idx on (i is the model's 1-based index of
\* p1 in pts; t_idx as in the code).
RECURSIVE SplineFrom(_, _, _, _)
SplineFrom(pts, k, i, t_idx) ==
  IF i > Len(pts) - 2 THEN <<>>
  ELSE IF t_idx >= k THEN SplineFrom(pts, k, i + 1, 0)
  ELSE <<CatmullRom(pts[i - 1], pts[i], pts[i + 1], pts[i + 2], t_idx, k)>>
       \o SplineFrom(pts, k, i, t_idx + 1)

\* waypoints.copy() as a path
RECURSIVE CopyPath(_)
CopyPath(waypoints) ==
  IF waypoints = <<>> THEN <<>>
  ELSE <<PathPoint(Head(waypoints))>> \o CopyPath(Tail(waypoints))

\* The path without its final "result.append(waypoints[-1])".
smooth_path_no_append(waypoints, k) ==
  IF Len(waypoints) < 2 THEN CopyPath(waypoints)
  ELSE LET pts == <<waypoints[1]>> \o waypoints \o <<waypoints[Len(waypoints)]>>
       IN SplineFrom(pts, k, 2, 0)

smooth_path(waypoints, k) ==
  IF Len(waypoints) < 2 THEN CopyPath(waypoints)
  ELSE LET pts == <<waypoints[1]>> \o waypoints \o <<waypoints[Len(waypoints)]>>
       IN Append(SplineFrom(pts, k, 2, 0), PathPoint(waypoints[Len(waypoints)]))

\* ------------------------------------------------------------------------
\* High-level planners
\* ------------------------------------------------------------------------
\* INTAKE_HALF_WIDTH = INTAKE_WIDTH / 2 = 0.45 = 9 / 20
INTAKE_HALF_WIDTH == <<9, 20>>

\* smooth_path's default num_interp
DefaultInterp == 20

\* path_distance of a smooth path: the points taken to the common
\* denominator 2 * k^3, the length is in units of 1 / (2 * k^3).
ScaledPath(path, k) ==
  [n \in 1..Len(path) |->
     <<path[n].x * ((2 * k * k * k) \div path[n].den),
       path[n].y * ((2 * k * k * k) \div path[n].den)>>]

smooth_distance(path, k) == path_distance(ScaledPath(path, k))

\* The planners hand their paths and distances on unevaluated: a path is
\* kept as the call smooth_path(waypoints) that gives it, a distance as the
\* call path_distance(path), the improvement as the two distances of its
\* quotient.  PathValue, DistanceValue and ImprovementIsZero evaluate them.
SmoothPathCallTail(waypoints) ==
  [smooth_path_of |-> Tail(waypoints), num_interp |-> DefaultInterp]
SmoothPathCall(waypoints) ==
  [smooth_path_of |-> waypoints, num_interp |-> DefaultInterp]
PathDistanceCall(path) == [path_distance_of |-> path]
ImprovementQuotient(nn_dist, opt_dist) ==
  [nn_dist |-> nn_dist, opt_dist |-> opt_dist]

PathValue(path) == smooth_path(path.smooth_path_of, path.num_interp)
DistanceValue(dist) ==
  smooth_distance(PathValue(dist.path_distance_of),
                  dist.path_distance_of.num_interp)

\* nn_dist > 0
PositiveLength(len) == \E n \in 1..Len(len) : len[n] > 0

\* improvement = (nn_dist - opt_dist) / nn_dist * 100 if nn_dist > 0 else 0.0
\* is 0.0: nn_dist is not positive, or the two distances are the sums of
\* the same norms in the same order, which are the same float.
ImprovementIsZero(improvement) ==
  LET nn_dist == DistanceValue(improvement.nn_dist)
      opt_dist == DistanceValue(improvement.opt_dist)
  IN ~PositiveLength(nn_dist) \/ nn_dist = opt_dist

\* Local-cluster mode on the single-cluster variant: the flood fill seeded
\* at the target nearest to the robot.
plan_by_nearest_seed(balls, robot, r) ==
  IF Len(balls) = 0 THEN NoneValue
  ELSE LET selection == select_best_cluster(balls, robot, r)
           nearest == find_nearest_cluster(balls, robot, r)
           cluster == Rows(balls, nearest)
           ordered == Rows(cluster, nearest_neighbor_order(cluster, robot))
           stacked == <<robot>> \o ordered
           kept == prune_waypoints(stacked, INTAKE_HALF_WIDTH)
           path == SmoothPathCall(Rows(stacked, kept))
       IN [none |-> FALSE,
           cluster |-> nearest,
           waypoints |-> Rows(stacked, kept),
           path |-> path,
           distance |-> PathDistanceCall(path),
           total_waypoints |-> Len(stacked),
           pruned_waypoints |-> Len(stacked) - Len(kept),
           cluster_score |-> score_cluster(balls, nearest, robot),
           cluster_min_distance2 |-> score_cluster(balls, nearest, robot).md2,
           cluster_size |-> Len(nearest),
           num_clusters |-> selection.num_clusters]

\* The cluster is kept as its rows' indices in balls; waypoints holds the
\* pruned rows of vstack([robot_pos, ordered]).
plan_nearest_cluster(balls, robot, r) ==
  IF Len(balls) = 0 THEN NoneValue
  ELSE LET selection == select_best_cluster(balls, robot, r) IN
       IF selection.none THEN NoneValue
       ELSE LET cluster == Rows(balls, selection.cluster)
                ordered == Rows(cluster, nearest_neighbor_order(cluster, robot))
                stacked == <<robot>> \o ordered
                kept == prune_waypoints(stacked, INTAKE_HALF_WIDTH)
                path == SmoothPathCall(Rows(stacked, kept))
            IN [none |-> FALSE,
                cluster |-> selection.cluster,
                waypoints |-> Rows(stacked, kept),
                path |-> path,
                distance |-> PathDistanceCall(path),
                total_waypoints |-> Len(stacked),
                pruned_waypoints |-> Len(stacked) - Len(kept),
                cluster_score |-> selection.score,
                cluster_min_distance2 |-> selection.min_distance2,
                cluster_size |-> selection.size,
                num_clusters |-> selection.num_clusters]

\* Full-sweep mode after the test for no balls: NN order over all balls,
\* 2-opt, both pruned and smoothed.
SweepPlan(balls, robot) ==
       LET ordered == Rows(balls, nearest_neighbor_order(balls, robot))
           stacked == <<robot>> \o ordered
           optimized == two_opt_improve(stacked)
           nn_waypoints == Rows(stacked, prune_waypoints(stacked, INTAKE_HALF_WIDTH))
           opt_waypoints == Rows(optimized, prune_waypoints(optimized, INTAKE_HALF_WIDTH))
           nn_path == SmoothPathCall(nn_waypoints)
           opt_path == SmoothPathCall(opt_waypoints)
           nn_dist == PathDistanceCall(nn_path)
           opt_dist == PathDistanceCall(opt_path)
       IN [none |-> FALSE,
           nn_waypoints |-> nn_waypoints,
           nn_path |-> nn_path,
           nn_distance |-> nn_dist,
           opt_waypoints |-> opt_waypoints,
           opt_path |-> opt_path,
           opt_distance |-> opt_dist,
           improvement_pct |-> ImprovementQuotient(nn_dist, opt_dist),
           total_waypoints |-> Len(stacked),
           pruned_waypoints |-> Len(stacked) - Len(opt_waypoints)]

\* The sweep without "if len(balls) == 0: return None".
plan_full_sweep_unguarded(balls, robot) == SweepPlan(balls, robot)

plan_full_sweep(balls, robot) ==
  IF Len(balls) = 0 THEN NoneValue ELSE SweepPlan(balls, robot)

\* ------------------------------------------------------------------------
\* State
\* ------------------------------------------------------------------------
VARIABLES
  balls,       \* a call's target array (points, for nearest_neighbor_order);
               \* the session's state.balls
  robot_pos,   \* a call's reference position (start); the session's
               \* state.robot_pos
  radius,      \* a call's clustering radius, <<num, den>>
  num_interp,  \* a call's num_interp (smooth_path)
  op,          \* the function called, "none" before the call
  ret,         \* what it returned
  tour_in,     \* two_opt_improve: the caller's tour
  tour,        \* two_opt_improve: the local copy being improved
  ti, tj,      \* two_opt_improve: the loop variables i, j (1-based)
  improved,    \* two_opt_improve: the flag of the while loop
  t_pc,        \* two_opt_improve: "idle", "call", "while", "for", "done"
  waypoints,   \* prune_waypoints: the caller's waypoints
  half_width,  \* prune_waypoints: intake_half_width, <<num, den>>
  kept,        \* prune_waypoints: the kept list
  changed,     \* prune_waypoints: the flag of the while loop
  p_pc,        \* prune_waypoints: "idle", "call", "while", "done"
  passes,      \* prune_waypoints: how often the body of "while changed" ran
  status,      \* session: "idle", "planning", "comparing", "executing", "done"
  phase,       \* session: 1 or 2
  paused,      \* session: state.paused
  show_nn_path,       \* session: state.show_nn_path
  followed_path,      \* session: state.smooth_path, the smooth_path call or None
                      \* the robot follows, or None
  path_idx,           \* session: state.path_idx (0-based, as in the code)
  nn_path, opt_path,  \* session: the display paths, or None
  comparison_timer,   \* session: state.comparison_timer, in seconds
  planner             \* session: plan_nearest_cluster and plan_full_sweep as
                      \* imported from planner, the table of their results

callVars == <<balls, robot_pos, radius, num_interp, op, ret>>
twoOptVars == <<tour_in, tour, ti, tj, improved, t_pc>>
pruneVars == <<waypoints, half_width, kept, changed, p_pc, passes>>
simVars == <<status, phase, paused, show_nn_path, followed_path, path_idx,
             nn_path, opt_path, comparison_timer, planner>>
vars == <<callVars, twoOptVars, pruneVars, simVars>>

\* Sequences of length 0..n of points of P.
SeqsUpTo(P, n) == UNION {[1..k -> P] : k \in 0..n}

CallsIdle ==
  /\ balls = <<>> /\ robot_pos = <<0, 0>> /\ radius = <<1, 1>>
  /\ num_interp = 1
  /\ op = "idle" /\ ret = NoneValue
TwoOptIdle ==
  /\ tour_in = <<>> /\ tour = <<>> /\ ti = 0 /\ tj = 0
  /\ improved = FALSE /\ t_pc = "idle"
PruneIdle ==
  /\ waypoints = <<>> /\ half_width = <<1, 1>> /\ kept = <<>>
  /\ changed = FALSE /\ p_pc = "idle" /\ passes = 0
\* SimState.reset(), but for balls and robot_pos
SimIdle ==
  /\ status = "idle" /\ phase = 1 /\ paused = FALSE /\ show_nn_path = TRUE
  /\ followed_path = NoneValue /\ path_idx = 0
  /\ nn_path = NoneValue /\ opt_path = NoneValue
  /\ comparison_timer = 0

\* No session is running: simulation.py is not loaded.
NoSession == SimIdle /\ planner = <<>>

\* ------------------------------------------------------------------------
\* Calls of the pure functions
\* ------------------------------------------------------------------------
\* A call returns: op names the function, ret holds its value.
Returns(name, value) ==
  /\ op = "none"
  /\ op' = name
  /\ ret' = value
  /\ UNCHANGED <<balls, robot_pos, radius, num_interp, twoOptVars, pruneVars, simVars>>

\* find_all_clusters(balls, radius)
InitClusters ==
  /\ balls \in SeqsUpTo(Points, MaxBalls)
  /\ radius \in Radii
  /\ num_interp = 1
  /\ robot_pos = <<0, 0>>
  /\ op = "none" /\ ret = NoneValue
  /\ TwoOptIdle /\ PruneIdle /\ NoSession

CallFindAllClusters ==
  Returns("find_all_clusters", find_all_clusters(balls, radius))

SpecClusters == InitClusters /\ [][CallFindAllClusters]_vars

\* find_nearest_cluster, select_best_cluster and plan_nearest_cluster
\* (balls, robot_pos, radius)
\* Every function here depends on the points through their distances alone
\* and breaks ties by index, so mirroring the grid left-right or top-bottom
\* maps a call to a call with the mirrored result: the robot starts in one
\* quadrant of the grid, the targets anywhere.
RobotStarts == {p \in Points : 2 * p[1] <= GridX /\ 2 * p[2] <= GridY}

InitCalls ==
  /\ balls \in SeqsUpTo(Points, MaxBalls)
  /\ robot_pos \in RobotStarts
  /\ radius \in Radii
  /\ num_interp = 1
  /\ op = "none" /\ ret = NoneValue
  /\ TwoOptIdle /\ PruneIdle /\ NoSession

CallFindNearestCluster ==
  Returns("find_nearest_cluster", find_nearest_cluster(balls, robot_pos, radius))
CallSelectBestCluster ==
  Returns("select_best_cluster", select_best_cluster(balls, robot_pos, radius))

NextSelect ==
  \/ CallFindNearestCluster
  \/ CallSelectBestCluster

SpecSelect == InitCalls /\ [][NextSelect]_vars

CallPlanNearestCluster ==
  Returns("plan_nearest_cluster", plan_nearest_cluster(balls, robot_pos, radius))

SpecPlan == InitCalls /\ [][CallPlanNearestCluster]_vars

\* plan_full_sweep(balls, robot_pos)
InitSweep ==
  /\ balls \in SeqsUpTo(Points, MaxBalls)
  /\ robot_pos \in RobotStarts
  /\ radius = <<1, 1>>
  /\ num_interp = 1
  /\ op = "none" /\ ret = NoneValue
  /\ TwoOptIdle /\ PruneIdle /\ NoSession

CallPlanFullSweep ==
  Returns("plan_full_sweep", plan_full_sweep(balls, robot_pos))

SpecSweep == InitSweep /\ [][CallPlanFullSweep]_vars

\* The entry points on no balls and on few: find_all_clusters,
\* select_best_cluster, plan_nearest_cluster and plan_full_sweep
InitEntry ==
  /\ balls \in SeqsUpTo(Points, MaxEntryBalls)
  /\ robot_pos \in Points
  /\ radius \in Radii
  /\ num_interp = 1
  /\ op = "none" /\ ret = NoneValue
  /\ TwoOptIdle /\ PruneIdle /\ NoSession

NextEntry ==
  \/ CallFindAllClusters
  \/ CallSelectBestCluster
  \/ CallPlanNearestCluster
  \/ CallPlanFullSweep

SpecEntry == InitEntry /\ [][NextEntry]_vars

\* Both planners, for the paths they return
InitPaths ==
  /\ balls \in SeqsUpTo(Points, MaxPathBalls)
  /\ robot_pos \in RobotStarts
  /\ radius \in Radii
  /\ num_interp = 1
  /\ op = "none" /\ ret = NoneValue
  /\ TwoOptIdle /\ PruneIdle /\ NoSession

NextPaths ==
  \/ CallPlanNearestCluster
  \/ CallPlanFullSweep

SpecPaths == InitPaths /\ [][NextPaths]_vars

\* nearest_neighbor_order(points, start): balls holds points, robot_pos start
InitOrder ==
  /\ balls \in SeqsUpTo(Points, MaxBalls)
  /\ robot_pos \in Points
  /\ radius = <<1, 1>>
  /\ num_interp = 1
  /\ op = "none" /\ ret = NoneValue
  /\ TwoOptIdle /\ PruneIdle /\ NoSession

CallNearestNeighborOrder ==
  Returns("nearest_neighbor_order", nearest_neighbor_order(balls, robot_pos))

SpecOrder == InitOrder /\ [][CallNearestNeighborOrder]_vars

\* smooth_path(waypoints, num_interp): balls holds waypoints
InitSmooth ==
  /\ balls \in SeqsUpTo(Points, MaxWaypoints)
  /\ Len(balls) > 0 => balls[1] \in RobotStarts
  /\ robot_pos = <<0, 0>>
  /\ radius = <<1, 1>>
  /\ num_interp \in 1..MaxInterp
  /\ op = "none" /\ ret = NoneValue
  /\ TwoOptIdle /\ PruneIdle /\ NoSession

CallSmoothPath ==
  Returns("smooth_path", smooth_path(balls, num_interp))

SpecSmooth == InitSmooth /\ [][CallSmoothPath]_vars

\* ------------------------------------------------------------------------
\* two_opt_improve, statement by statement
\* ------------------------------------------------------------------------
\* The tour's first point, the robot position, lies in one quadrant of the
\* grid: mirroring a tour mirrors every step of the run.
TourStarts == {p \in TourPoints : 2 * p[1] <= TourGridX /\ 2 * p[2] <= TourGridY}

InitTwoOpt ==
  /\ tour_in \in SeqsUpTo(TourPoints, MaxTour)
  /\ Len(tour_in) > 0 => tour_in[1] \in TourStarts
  /\ tour = <<>> /\ ti = 0 /\ tj = 0 /\ improved = FALSE
  /\ t_pc = "call"
  /\ CallsIdle /\ PruneIdle /\ NoSession

\* if len(tour) < 4: return tour.copy()
TwoOptShort ==
  /\ t_pc = "call" /\ Len(tour_in) < 4
  /\ tour' = tour_in
  /\ t_pc' = "done"
  /\ UNCHANGED <<tour_in, ti, tj, improved, callVars, pruneVars, simVars>>

\* tour = tour.copy(); n = len(tour); improved = True
TwoOptEnter ==
  /\ t_pc = "call" /\ Len(tour_in) >= 4
  /\ tour' = tour_in
  /\ improved' = TRUE
  /\ t_pc' = "while"
  /\ UNCHANGED <<tour_in, ti, tj, callVars, pruneVars, simVars>>

\* The sweep that forgets "improved = False": the flag stays set.
TwoOptSweepNoReset ==
  /\ t_pc = "while" /\ improved
  /\ ti' = 1 /\ tj' = 3
  /\ t_pc' = "for"
  /\ UNCHANGED <<tour_in, tour, improved, callVars, pruneVars, simVars>>

\* while improved: improved = False; the first pair is i = 0, j = 2
TwoOptSweep ==
  /\ t_pc = "while" /\ improved
  /\ improved' = FALSE
  /\ ti' = 1 /\ tj' = 3
  /\ t_pc' = "for"
  /\ UNCHANGED <<tour_in, tour, callVars, pruneVars, simVars>>

\* The swap on the caller's array itself, as it is without tour.copy().
TwoOptSwapInPlace ==
  /\ t_pc = "for"
  /\ \E p \in {FirstImproving(tour, ti, tj)} :
     /\ p[2] <= Len(tour)
     /\ tour' = ReverseSegment(tour, p[1], p[2])
     /\ tour_in' = tour'
     /\ improved' = TRUE
     /\ ti' = NextPair(p[1], p[2], Len(tour))[1]
     /\ tj' = NextPair(p[1], p[2], Len(tour))[2]
  /\ UNCHANGED <<t_pc, callVars, pruneVars, simVars>>

\* The loops run up to the next pair with d_new < d_old - 1e-10: reverse the
\* segment; improved = True
TwoOptSwap ==
  /\ t_pc = "for"
  /\ \E p \in {FirstImproving(tour, ti, tj)} :
     /\ p[2] <= Len(tour)
     /\ tour' = ReverseSegment(tour, p[1], p[2])
     /\ improved' = TRUE
     /\ ti' = NextPair(p[1], p[2], Len(tour))[1]
     /\ tj' = NextPair(p[1], p[2], Len(tour))[2]
  /\ UNCHANGED <<tour_in, t_pc, callVars, pruneVars, simVars>>

\* The loops run to their end, no pair left improving the tour: back to the
\* test of "while improved"
TwoOptSweepEnd ==
  /\ t_pc = "for"
  /\ \E p \in {FirstImproving(tour, ti, tj)} :
     /\ p[2] > Len(tour)
     /\ ti' = p[1]
     /\ tj' = p[2]
  /\ t_pc' = "while"
  /\ UNCHANGED <<tour_in, tour, improved, callVars, pruneVars, simVars>>

\* the while loop ends: return tour
TwoOptReturn ==
  /\ t_pc = "while" /\ ~improved
  /\ t_pc' = "done"
  /\ UNCHANGED <<tour_in, tour, ti, tj, improved, callVars, pruneVars, simVars>>

NextTwoOpt ==
  \/ TwoOptShort
  \/ TwoOptEnter
  \/ TwoOptSweep
  \/ TwoOptSwap
  \/ TwoOptSweepEnd
  \/ TwoOptReturn

SpecTwoOpt == InitTwoOpt /\ [][NextTwoOpt]_vars

\* The same run with the call as a step of its own: the caller, idle, calls
\* two_opt_improve(tour).  A call once made runs on: the interpreter
\* executes the next statement of a call that has not returned.  The
\* caller is under no obligation to call.
InitTwoOptIdle == CallsIdle /\ TwoOptIdle /\ PruneIdle /\ NoSession

TwoOptCall ==
  /\ t_pc = "idle"
  /\ tour_in' \in SeqsUpTo(TourPoints, MaxTour)
  /\ Len(tour_in') > 0 => tour_in'[1] \in TourStarts
  /\ t_pc' = "call"
  /\ UNCHANGED <<tour, ti, tj, improved, callVars, pruneVars, simVars>>

SpecTwoOptFair ==
  InitTwoOptIdle /\ [][TwoOptCall \/ NextTwoOpt]_vars /\ WF_vars(NextTwoOpt)

\* ------------------------------------------------------------------------
\* prune_waypoints, pass by pass
\* ------------------------------------------------------------------------
\* Half-widths the callers pass, as fractions <<num, den>> of a grid unit:
\* INTAKE_HALF_WIDTH and 1.5.
HalfWidths == {INTAKE_HALF_WIDTH, <<1, 1>>, <<3, 2>>}

InitPrune ==
  /\ waypoints \in SeqsUpTo(Points, MaxWaypoints)
  /\ Len(waypoints) > 0 => waypoints[1] \in RobotStarts
  /\ half_width \in HalfWidths
  /\ kept = <<>> /\ changed = FALSE /\ passes = 0
  /\ p_pc = "call"
  /\ CallsIdle /\ TwoOptIdle /\ NoSession

\* if len(waypoints) <= 2: return waypoints.copy()
PruneShort ==
  /\ p_pc = "call" /\ Len(waypoints) <= 2
  /\ kept' = [k \in 1..Len(waypoints) |-> k]
  /\ p_pc' = "done"
  /\ UNCHANGED <<waypoints, half_width, changed, passes, callVars, twoOptVars, simVars>>

\* kept = list(range(len(waypoints))); changed = True
PruneEnter ==
  /\ p_pc = "call" /\ Len(waypoints) > 2
  /\ kept' = [k \in 1..Len(waypoints) |-> k]
  /\ changed' = TRUE
  /\ p_pc' = "while"
  /\ UNCHANGED <<waypoints, half_width, passes, callVars, twoOptVars, simVars>>

\* one pass of "while changed"
PrunePassStep ==
  /\ p_pc = "while" /\ changed
  /\ kept' = PrunePass(waypoints, kept, half_width).kept
  /\ changed' = PrunePass(waypoints, kept, half_width).changed
  /\ passes' = passes + 1
  /\ UNCHANGED <<waypoints, half_width, p_pc, callVars, twoOptVars, simVars>>

\* the while loop ends: return waypoints[kept]
PruneReturn ==
  /\ p_pc = "while" /\ ~changed
  /\ p_pc' = "done"
  /\ UNCHANGED <<waypoints, half_width, kept, changed, passes, callVars, twoOptVars, simVars>>

NextPrune ==
  \/ PruneShort
  \/ PruneEnter
  \/ PrunePassStep
  \/ PruneReturn

SpecPrune == InitPrune /\ [][NextPrune]_vars

\* ------------------------------------------------------------------------
\* Every stage and both planners, each from its own call
\* ------------------------------------------------------------------------
InitStages == InitEntry \/ InitTwoOpt \/ InitPrune

NextStages ==
  \/ NextEntry
  \/ CallFindNearestCluster
  \/ CallNearestNeighborOrder
  \/ CallSmoothPath
  \/ NextTwoOpt
  \/ NextPrune

SpecStages == InitStages /\ [][NextStages]_vars

\* ------------------------------------------------------------------------
\* The session (simulation.py): key presses, clicks and step(dt)
\* ------------------------------------------------------------------------
\* Coordinates are metres from the robot's reset position
\* (1.0, FIELD_WIDTH / 2); balls are placed at the points SimPoints, which
\* are farther apart than the cluster radius and not in line with the
\* reset position.  The
\* handlers run one at a time on the GUI thread.  Not kept: robot_heading,
\* trail, plan, replan_count and _artists, which the handlers write and
\* only the drawing reads, and collected, which nothing ever adds to.
\* smooth_path, nn_path and opt_path hold the planner's paths as the calls
\* that made them; PathValue gives their points.
SimPoints == {<<1, 0>>, <<1, 2>>}
StartPos == <<0, 0>>

\* COLLECTION_RADIUS = INTAKE_WIDTH / 2 + 0.05 = 0.5; REMOVE_RADIUS = 0.5
COLLECTION_RADIUS == <<1, 2>>
REMOVE_RADIUS == <<1, 2>>
COMPARISON_PAUSE_SEC == 2
\* cluster_radius of plan_nearest_cluster, 1.5 by default
DefaultClusterRadius == <<3, 2>>

\* np.linalg.norm(p - q) < r for a radius r[1] / r[2]
Nearer(p, q, r) == Dist2(p, q) * r[2] * r[2] < r[1] * r[1]

\* len(path) - 1
LastIdx(path) == Len(path) - 1

\* The balls in range noted as collected but left in state.balls.
RECURSIVE UncollectedKept(_, _)
UncollectedKept(bs, pos) ==
  IF bs = <<>> THEN <<>>
  ELSE <<Head(bs)>> \o UncollectedKept(Tail(bs), pos)

\* The balls left after "for idx in reversed(to_remove): state.balls.pop(idx)"
RECURSIVE Uncollected(_, _)
Uncollected(bs, pos) ==
  IF bs = <<>> THEN <<>>
  ELSE IF Nearer(Head(bs), pos, COLLECTION_RADIUS) THEN Uncollected(Tail(bs), pos)
  ELSE <<Head(bs)>> \o Uncollected(Tail(bs), pos)

\* The planner's result for the phase, on the balls bs from pos
PlanCall(bs, pos, ph) ==
  IF ph = 1 THEN plan_nearest_cluster(bs, pos, DefaultClusterRadius)
  ELSE plan_full_sweep(bs, pos)

\* The keys of a result that the session reads: path in phase 1, nn_path
\* and opt_path in phase 2
KeysRead(result, ph) ==
  IF result.none THEN NoneValue
  ELSE IF ph = 1 THEN [none |-> FALSE, path |-> result.path]
  ELSE [none |-> FALSE, nn_path |-> result.nn_path, opt_path |-> result.opt_path]

\* "from planner import plan_nearest_cluster, plan_full_sweep": the two
\* functions are pure, and the session holds them as the table of their
\* results for the balls, positions and phases it can call them with.
PlanResults ==
  [call \in SeqsUpTo(SimPoints, MaxSimBalls) \X (SimPoints \cup {StartPos}) \X {1, 2}
     |-> IF call[1] = <<>> THEN NoneValue
         ELSE KeysRead(PlanCall(call[1], call[2], call[3]), call[3])]

\* The call of the imported function for the phase
PlanFor(bs, pos, ph) == planner[<<bs, pos, ph>>]

\* do_plan without "state.path_idx = 0".
do_plan_keep_idx(bs, pos, ph) ==
  IF Len(bs) = 0
  THEN /\ status' = "done"
       /\ followed_path' = NoneValue /\ nn_path' = NoneValue /\ opt_path' = NoneValue
       /\ UNCHANGED <<path_idx, comparison_timer>>
  ELSE \E result \in {PlanFor(bs, pos, ph)} :
         IF result.none
         THEN /\ status' = "done"
              /\ UNCHANGED <<followed_path, nn_path, opt_path, path_idx, comparison_timer>>
         ELSE IF ph = 1
         THEN /\ followed_path' = result.path
              /\ nn_path' = NoneValue /\ opt_path' = NoneValue
              /\ status' = "executing"
              /\ UNCHANGED <<path_idx, comparison_timer>>
         ELSE /\ nn_path' = result.nn_path
              /\ opt_path' = result.opt_path
              /\ followed_path' = result.opt_path
              /\ UNCHANGED path_idx
              /\ comparison_timer' = COMPARISON_PAUSE_SEC
              /\ status' = "comparing"

\* do_plan() with state.balls = bs, state.robot_pos = pos, state.phase = ph
do_plan(bs, pos, ph) ==
  IF Len(bs) = 0
  THEN /\ status' = "done"
       /\ followed_path' = NoneValue /\ nn_path' = NoneValue /\ opt_path' = NoneValue
       /\ UNCHANGED <<path_idx, comparison_timer>>
  ELSE \E result \in {PlanFor(bs, pos, ph)} :
         IF result.none
         THEN /\ status' = "done"
              /\ UNCHANGED <<followed_path, nn_path, opt_path, path_idx, comparison_timer>>
         ELSE IF ph = 1
         THEN /\ followed_path' = result.path
              /\ nn_path' = NoneValue /\ opt_path' = NoneValue
              /\ path_idx' = 0
              /\ status' = "executing"
              /\ UNCHANGED comparison_timer
         ELSE /\ nn_path' = result.nn_path
              /\ opt_path' = result.opt_path
              /\ followed_path' = result.opt_path
              /\ path_idx' = 0
              /\ comparison_timer' = COMPARISON_PAUSE_SEC
              /\ status' = "comparing"

\* do_replan() with state.balls = bs, state.robot_pos = pos, state.phase = ph
do_replan(bs, pos, ph) ==
  IF Len(bs) = 0
  THEN /\ status' = "done"
       /\ followed_path' = NoneValue /\ nn_path' = NoneValue /\ opt_path' = NoneValue
       /\ UNCHANGED <<path_idx, comparison_timer>>
  ELSE \E result \in {PlanFor(bs, pos, ph)} :
         IF result.none
         THEN /\ status' = "done"
              /\ UNCHANGED <<followed_path, nn_path, opt_path, path_idx, comparison_timer>>
         ELSE /\ IF ph = 1
                 THEN /\ followed_path' = result.path
                      /\ nn_path' = NoneValue /\ opt_path' = NoneValue
                 ELSE /\ nn_path' = result.nn_path
                      /\ opt_path' = result.opt_path
                      /\ followed_path' = result.opt_path
              /\ path_idx' = 0
              /\ status' = "executing"
              /\ UNCHANGED comparison_timer

\* SimState(): reset()
InitSim ==
  /\ balls = <<>> /\ robot_pos = StartPos
  /\ SimIdle
  /\ planner = PlanResults
  /\ radius = <<1, 1>> /\ num_interp = 1 /\ op = "idle" /\ ret = NoneValue
  /\ TwoOptIdle /\ PruneIdle

otherVars == <<radius, num_interp, op, ret, twoOptVars, pruneVars, planner>>

\* on_key, " ": a plan starts from idle or done.  In any other status the
\* key changes nothing.
KeySpace ==
  /\ status \in {"idle", "done"}
  /\ do_plan(balls, robot_pos, phase)
  /\ UNCHANGED <<balls, robot_pos, phase, paused, show_nn_path, otherVars>>

\* on_key, "1"
Key1 ==
  /\ phase' = 1
  /\ IF status \in {"idle", "done"}
     THEN nn_path' = NoneValue /\ opt_path' = NoneValue
     ELSE UNCHANGED <<nn_path, opt_path>>
  /\ UNCHANGED <<balls, robot_pos, status, paused, show_nn_path, followed_path,
                 path_idx, comparison_timer, otherVars>>

\* on_key, "2"
Key2 ==
  /\ phase' = 2
  /\ UNCHANGED <<balls, robot_pos, status, paused, show_nn_path, followed_path,
                 path_idx, nn_path, opt_path, comparison_timer, otherVars>>

\* on_key, "s": n random balls are appended.  The code draws n from 8..15
\* and the places from the field; here n and the places are inputs drawn
\* from what fits MaxSimBalls and SimPoints.
KeyS ==
  /\ \E n \in 1..(MaxSimBalls - Len(balls)) :
       \E new \in [1..n -> SimPoints] : balls' = balls \o new
  /\ UNCHANGED <<robot_pos, simVars, otherVars>>

\* on_key, "r": state.reset()
KeyR ==
  /\ balls' = <<>> /\ robot_pos' = StartPos
  /\ status' = "idle" /\ phase' = 1 /\ paused' = FALSE /\ show_nn_path' = TRUE
  /\ followed_path' = NoneValue /\ path_idx' = 0
  /\ nn_path' = NoneValue /\ opt_path' = NoneValue
  /\ comparison_timer' = 0
  /\ UNCHANGED otherVars

\* "p" writing the pause into status instead of the paused flag.
KeyPStatus ==
  /\ status' = IF status = "paused" THEN "executing" ELSE "paused"
  /\ UNCHANGED <<balls, robot_pos, paused, phase, show_nn_path, followed_path,
                 path_idx, nn_path, opt_path, comparison_timer, otherVars>>

\* on_key, "p"
KeyP ==
  /\ paused' = ~paused
  /\ UNCHANGED <<balls, robot_pos, status, phase, show_nn_path, followed_path,
                 path_idx, nn_path, opt_path, comparison_timer, otherVars>>

\* on_key, "n": a random ball is appended; a replan if executing
KeyN ==
  /\ Len(balls) < MaxSimBalls
  /\ \E p \in SimPoints :
       \E with_new \in {Append(balls, p)} :
         /\ balls' = with_new
         /\ IF status = "executing"
            THEN do_replan(with_new, robot_pos, phase)
            ELSE UNCHANGED <<status, followed_path, path_idx, nn_path, opt_path,
                             comparison_timer>>
  /\ UNCHANGED <<robot_pos, phase, paused, show_nn_path, otherVars>>

\* on_key, "d"
KeyD ==
  /\ show_nn_path' = ~show_nn_path
  /\ UNCHANGED <<balls, robot_pos, status, phase, paused, followed_path,
                 path_idx, nn_path, opt_path, comparison_timer, otherVars>>

\* on_click, button 1: a ball is placed at the click
ClickLeft ==
  /\ Len(balls) < MaxSimBalls
  /\ \E p \in SimPoints : balls' = Append(balls, p)
  /\ UNCHANGED <<robot_pos, simVars, otherVars>>

\* on_click, button 3: the ball nearest to the click is removed if it is
\* nearer than REMOVE_RADIUS; otherwise the click changes nothing.
ClickRight ==
  /\ Len(balls) > 0
  /\ \E p \in SimPoints :
       \E nearest \in {ArgMinDist(balls, p)} :
         /\ Nearer(balls[nearest], p, REMOVE_RADIUS)
         /\ balls' = Pop(balls, nearest)
  /\ UNCHANGED <<robot_pos, simVars, otherVars>>

\* step(dt) in the comparison pause, dt in whole seconds
StepComparing ==
  /\ ~paused /\ status = "comparing"
  /\ \E dt \in 1..MaxDt :
       /\ comparison_timer' = comparison_timer - dt
       /\ status' = IF comparison_timer' <= 0 THEN "executing" ELSE "comparing"
  /\ UNCHANGED <<balls, robot_pos, phase, paused, show_nn_path, followed_path,
                 path_idx, nn_path, opt_path, otherVars>>

\* The path indices at which a step may end: dt is drawn from the values
\* whose budget ROBOT_SPEED * dt ends exactly at a waypoint of the path
\* ahead (a point of the path with t = 0, or the last), so that the robot
\* stays on the points of the grid.
Landings(path, idx) ==
  {j \in (idx + 1)..LastIdx(path) : path[j + 1].den = 1}

\* step(dt) while executing: the robot moves to path[j], the balls nearer
\* than COLLECTION_RADIUS are removed, and at the end of the path the
\* session replans or is done.
StepExecuting ==
  /\ ~paused /\ status = "executing" /\ followed_path # NoneValue
  /\ \E path \in {PathValue(followed_path)} :
       IF path_idx >= LastIdx(path)
       THEN /\ status' = "done"
            /\ UNCHANGED <<balls, robot_pos, followed_path, path_idx, nn_path,
                           opt_path, comparison_timer>>
       ELSE \E j \in Landings(path, path_idx) :
            \E pos \in {<<path[j + 1].x, path[j + 1].y>>} :
            \E remaining \in {Uncollected(balls, pos)} :
              /\ robot_pos' = pos
              /\ balls' = remaining
              /\ IF j >= LastIdx(path)
                 THEN IF Len(remaining) > 0
                      THEN do_replan(remaining, pos, phase)
                      ELSE /\ status' = "done"
                           /\ path_idx' = j
                           /\ UNCHANGED <<followed_path, nn_path, opt_path,
                                          comparison_timer>>
                 ELSE /\ path_idx' = j
                      /\ UNCHANGED <<status, followed_path, nn_path, opt_path,
                                     comparison_timer>>
  /\ UNCHANGED <<phase, paused, show_nn_path, otherVars>>

step ==
  \/ StepComparing
  \/ StepExecuting

NextSim ==
  \/ KeySpace
  \/ Key1
  \/ Key2
  \/ KeyS
  \/ KeyR
  \/ KeyP
  \/ KeyN
  \/ KeyD
  \/ ClickLeft
  \/ ClickRight
  \/ step

SpecSim == InitSim /\ [][NextSim]_vars

\* Sessions in which input arrives only between runs: keys and clicks
\* while the status is idle or done, Space to start, and from then on
\* only the animation's timer, which calls step on every frame.
BetweenRuns ==
  /\ status \in {"idle", "done"}
  /\ \/ Key1
     \/ Key2
     \/ KeyS
     \/ KeyR
     \/ KeyP
     \/ KeyN
     \/ KeyD
     \/ ClickLeft
     \/ ClickRight

NextRun ==
  \/ BetweenRuns
  \/ KeySpace
  \/ step

SpecRun == InitSim /\ [][NextRun]_vars /\ WF_vars(step)

\* ========================================================================
\* Properties
\* ========================================================================
Range(seq) == {seq[k] : k \in 1..Len(seq)}
Indices(seq) == [k \in 1..Len(seq) |-> k]

\* Whether idx is a strictly increasing sequence of positions of 1..n.
Increasing(idx, n) ==
  /\ \A k \in 1..Len(idx) : idx[k] \in 1..n
  /\ \A k \in 1..(Len(idx) - 1) : idx[k] < idx[k + 1]

\* The points of balls joined to point i by a chain of points whose
\* consecutive distances are all <= r: the least set holding i and closed
\* under the r-neighbour relation.
RECURSIVE ChainClosure(_, _, _)
ChainClosure(pts, r, S) ==
  LET T == S \cup {j \in 1..Len(pts) : \E i \in S : WithinRadius(pts[i], pts[j], r)}
  IN IF T = S THEN S ELSE ChainClosure(pts, r, T)
Component(pts, r, i) == ChainClosure(pts, r, {i})

\* C1: find_all_clusters returns a true partition of the input: every input
\* index is in exactly one returned cluster, exactly once, and no returned
\* cluster is empty.
C1_Partition ==
  op = "find_all_clusters" =>
    /\ \A c \in 1..Len(ret) : Len(ret[c]) > 0 /\ Increasing(ret[c], Len(balls))
    /\ \A i \in 1..Len(balls) :
         Cardinality({c \in 1..Len(ret) : i \in Range(ret[c])}) = 1
C1_Witness ==
  /\ op = "find_all_clusters"
  /\ Len(balls) = MaxBalls
  /\ Len(ret) = 2
  /\ \E c \in 1..Len(ret) : Len(ret[c]) >= 2

\* C2: two points are in the same cluster of find_all_clusters exactly when
\* a chain of points with consecutive distances <= r joins them: the
\* clusters are the connected components of the r-neighbour graph.
C2_Components ==
  op = "find_all_clusters" =>
    \A i, j \in 1..Len(balls) :
      (\E c \in 1..Len(ret) : i \in Range(ret[c]) /\ j \in Range(ret[c]))
        <=> j \in Component(balls, radius, i)
\* A cluster that is a chain and no clique: two of its points are farther
\* apart than r.
C2_Witness ==
  /\ op = "find_all_clusters"
  /\ \E c \in 1..Len(ret) : \E i, j \in Range(ret[c]) :
       ~WithinRadius(balls[i], balls[j], radius)
  /\ Len(ret) >= 1

\* C3 as claimed: the cluster plan_nearest_cluster orders is the one of the
\* single-cluster variant, the connected group holding the nearest target.
C3_NearestSeeded ==
  (op = "plan_nearest_cluster" /\ Len(balls) > 0) =>
    /\ ~ret.none
    /\ ret.cluster = find_nearest_cluster(balls, robot_pos, radius)
    /\ ArgMinDist(balls, robot_pos) \in Range(ret.cluster)

\* C3, amended: the cluster plan_nearest_cluster orders and simplifies is a
\* cluster of find_all_clusters of greatest score size / (min_distance +
\* bias), the first such in partition order; the waypoints are the robot
\* position followed by that cluster in nearest-neighbour order, pruned.
C3_BestScored ==
  (op = "plan_nearest_cluster" /\ Len(balls) > 0) =>
    /\ ~ret.none
    /\ LET clusters == find_all_clusters(balls, radius)
           mine == score_cluster(balls, ret.cluster, robot_pos)
           pts == Rows(balls, ret.cluster)
           stacked == <<robot_pos>> \o Rows(pts, nearest_neighbor_order(pts, robot_pos))
       IN /\ \E c \in 1..Len(clusters) :
               /\ clusters[c] = ret.cluster
               /\ \A b \in 1..(c - 1) :
                    ScoreGreater(mine, score_cluster(balls, clusters[b], robot_pos))
          /\ \A c \in 1..Len(clusters) :
               ~ScoreGreater(score_cluster(balls, clusters[c], robot_pos), mine)
          /\ ret.waypoints = Rows(stacked, prune_waypoints(stacked, INTAKE_HALF_WIDTH))
          /\ ret.total_waypoints = Len(ret.cluster) + 1
\* The chosen cluster does not hold the target nearest to the robot.
C3_Witness ==
  /\ op = "plan_nearest_cluster"
  /\ Len(balls) > 0
  /\ ~ret.none
  /\ ArgMinDist(balls, robot_pos) \notin Range(ret.cluster)
  /\ ret.num_clusters >= 2

\* C4: select_best_cluster returns a cluster of the partition whose score
\* size / (min_distance + bias) no cluster exceeds, the first such in
\* partition order; size and num_clusters are that cluster's size and the
\* number of clusters; the result is None exactly when there are no targets.
C4_BestCluster ==
  op = "select_best_cluster" =>
    LET clusters == find_all_clusters(balls, radius) IN
    IF Len(balls) = 0 THEN ret.none
    ELSE /\ ~ret.none
         /\ \E c \in 1..Len(clusters) :
              /\ clusters[c] = ret.cluster
              /\ ret.score = score_cluster(balls, clusters[c], robot_pos)
              /\ \A b \in 1..Len(clusters) :
                   ~ScoreGreater(score_cluster(balls, clusters[b], robot_pos), ret.score)
              /\ \A b \in 1..(c - 1) :
                   ScoreGreater(ret.score, score_cluster(balls, clusters[b], robot_pos))
         /\ ret.min_distance2 = ret.score.md2
         /\ \A i \in Range(ret.cluster) : Dist2(balls[i], robot_pos) >= ret.min_distance2
         /\ \E i \in Range(ret.cluster) : Dist2(balls[i], robot_pos) = ret.min_distance2
         /\ ret.size = Len(ret.cluster)
         /\ ret.num_clusters = Len(clusters)
\* Two clusters share the greatest score and the first is returned.
C4_Witness ==
  /\ op = "select_best_cluster"
  /\ ~ret.none
  /\ LET clusters == find_all_clusters(balls, radius)
     IN /\ Len(clusters) >= 2
        /\ ret.cluster = clusters[1]
        /\ \E b \in 2..Len(clusters) :
             ~ScoreGreater(ret.score, score_cluster(balls, clusters[b], robot_pos))

\* C5: nearest_neighbor_order returns a permutation of its n input points:
\* n entries, every input index exactly once.
C5_Permutation ==
  op = "nearest_neighbor_order" =>
    /\ Len(ret) = Len(balls)
    /\ \A i \in 1..Len(balls) : Cardinality({k \in 1..Len(ret) : ret[k] = i}) = 1
C5_Witness ==
  /\ op = "nearest_neighbor_order"
  /\ Len(balls) = MaxBalls
  /\ ret # Indices(balls)
  /\ ret[1] # 1

\* The total edge length of a tour, as path_distance measures it.
TourLength(t) == path_distance(t)

\* C6: the tour two_opt_improve works on is never longer than its input,
\* from the copy to the return, and every segment reversal makes it
\* strictly shorter.
C6_NeverLonger ==
  /\ [](t_pc \in {"while", "for", "done"} =>
          CmpLen(TourLength(tour), TourLength(tour_in)) \in {-1, 0})
  /\ [][TwoOptSwap => CmpLen(TourLength(tour'), TourLength(tour)) = -1]_vars
\* A run that returned a tour strictly shorter than its input.
C6_Witness ==
  /\ t_pc = "done"
  /\ Len(tour_in) = MaxTour
  /\ tour # tour_in
  /\ CmpLen(TourLength(tour), TourLength(tour_in)) = -1

\* Whether reversing the segment after position i up to position j, for
\* some i, j with i + 1 < j (j may be the last position), makes t strictly
\* shorter.  Position 1 is the fixed first element.
AdmitsImprovingSwap(t) ==
  \E i \in 1..Len(t) : \E j \in (i + 2)..Len(t) :
    CmpLen(TourLength(ReverseSegment(t, i, j)), TourLength(t)) = -1

\* C7: the returned tour is as long as the input exactly when the input
\* admits no improving swap.
C7_EqualIffNoSwap ==
  t_pc = "done" =>
    ((CmpLen(TourLength(tour), TourLength(tour_in)) = 0)
       <=> ~AdmitsImprovingSwap(tour_in))

\* C8: prune_waypoints returns an order-preserving subsequence of its input
\* with the input's first and last elements and no more points than the
\* input.
C8_Subsequence ==
  p_pc = "done" =>
    /\ Increasing(kept, Len(waypoints))
    /\ Len(kept) <= Len(waypoints)
    /\ Len(waypoints) >= 1 => (kept[1] = 1 /\ Last(kept) = Len(waypoints))
    /\ Len(waypoints) = 0 => kept = <<>>
C8_Witness ==
  /\ p_pc = "done"
  /\ Len(waypoints) = MaxWaypoints
  /\ Len(kept) = 3
  /\ kept[2] = 3

\* dist < w for the distance from point to the segment
CapturedOn(point, seg_start, seg_end, w) ==
  ~DistAtLeast(point_to_segment_dist(point, seg_start, seg_end), w)

\* C9: every waypoint prune_waypoints removed lies at distance < w from the
\* segment between its surviving neighbours, the waypoints of the output
\* next before and next after it.
C9_RemovedAreCaptured ==
  p_pc = "done" =>
    \A i \in (1..Len(waypoints)) \ Range(kept) :
      \E k \in 1..(Len(kept) - 1) :
        /\ kept[k] < i /\ i < kept[k + 1]
        /\ CapturedOn(waypoints[i], waypoints[kept[k]], waypoints[kept[k + 1]],
                      half_width)

\* C10: prune_waypoints applied to its own output returns it unchanged.
C10_Idempotent ==
  p_pc = "done" =>
    prune_waypoints(Rows(waypoints, kept), half_width) = Indices(kept)
\* An output of three points, one waypoint gone: pruning it again runs the
\* loop and removes nothing.
C10_Witness ==
  /\ p_pc = "done"
  /\ Len(kept) = 3
  /\ Len(kept) < Len(waypoints)
  /\ half_width = INTAKE_HALF_WIDTH


\* C11: two_opt_improve terminates on every tour: every run reaches the
\* return, after finitely many reversals and a last sweep that found no
\* improving pair.
C11_Terminates == (t_pc = "call") ~> (t_pc = "done")
\* A run that returned after more than one sweep: the last sweep ended at
\* the pair of exhaustion with the flag unset, after a reversal.
C11_Witness ==
  /\ t_pc = "done"
  /\ ~improved
  /\ tour # tour_in
  /\ tj > Len(tour)


\* C12: the loop of prune_waypoints terminates on every input: every pass
\* that sets changed takes at least one waypoint off the kept list, a pass
\* that leaves it unset (after which the loop exits) takes none, and for n
\* waypoints the body of the loop runs at most n - 1 times.
C12_Terminates ==
  /\ [][(PrunePassStep /\ changed') => Len(kept') < Len(kept)]_vars
  /\ [][(PrunePassStep /\ ~changed') => kept' = kept]_vars
  /\ [](Len(waypoints) > 0 => passes <= Len(waypoints) - 1)
\* A run of the greatest number of passes its input allows.
C12_Witness ==
  /\ p_pc = "done"
  /\ Len(waypoints) = MaxWaypoints
  /\ passes = Len(waypoints) - 1


\* C13: for at least 2 waypoints and a density k >= 1, the last element of
\* the path of smooth_path is the last waypoint itself, the copy appended
\* after the loops, not a value of the spline formula.
C13_EndsAtLastWaypoint ==
  (op = "smooth_path" /\ Len(balls) >= 2) =>
    /\ Len(ret) >= 1
    /\ ret[Len(ret)] = PathPoint(balls[Len(balls)])
\* The last waypoint differs from the one before it, and the point before
\* the last of the path is a value of the formula.
C13_Witness ==
  /\ op = "smooth_path"
  /\ Len(balls) = MaxWaypoints
  /\ balls[Len(balls)] # balls[Len(balls) - 1]
  /\ num_interp >= 2
  /\ ret[Len(ret) - 1].den # 1


\* C14: for n >= 2 waypoints and density k the path of smooth_path holds
\* every waypoint, in order, with exactly k interpolated points between
\* each two consecutive waypoints: from some position s on, waypoint i is
\* at position s + (i - 1) * (k + 1).
C14_KBetweenWaypoints ==
  (op = "smooth_path" /\ Len(balls) >= 2) =>
    \E s \in 1..Len(ret) :
      \A i \in 1..Len(balls) :
        /\ s + (i - 1) * (num_interp + 1) <= Len(ret)
        /\ ret[s + (i - 1) * (num_interp + 1)] = PathPoint(balls[i])
\* What the code does: waypoint i is at position (i - 1) * k + 1 of a path
\* of (n - 1) * k + 1 points, so k - 1 points lie between two waypoints.
C14_KPerSegment ==
  (op = "smooth_path" /\ Len(balls) >= 2) =>
    /\ Len(ret) = (Len(balls) - 1) * num_interp + 1
    /\ \A i \in 1..Len(balls) :
         ret[(i - 1) * num_interp + 1] = PathPoint(balls[i])


\* The number of positions of s that hold x.
Occurrences(s, x) == Cardinality({k \in 1..Len(s) : s[k] = x})

\* C15: two_opt_improve never moves the first element and never loses or
\* duplicates a point: at every point of the run, and in the tour it
\* returns, the first element is the input's first element and every point
\* occurs as often as in the input tour.
C15_FirstFixedPermutation ==
  (t_pc \in {"while", "for", "done"}) =>
    /\ Len(tour) = Len(tour_in)
    /\ Len(tour) > 0 => tour[1] = tour_in[1]
    /\ \A p \in TourPoints : Occurrences(tour, p) = Occurrences(tour_in, p)
\* A returned tour that a swap with i = 0 has changed at its second place.
C15_Witness ==
  /\ t_pc = "done"
  /\ Len(tour_in) = MaxTour
  /\ tour[2] # tour_in[2]
  /\ tour[1] # tour[2]


\* C16: on an empty target set plan_nearest_cluster, plan_full_sweep and
\* select_best_cluster return None and find_all_clusters returns the empty
\* partition; each of them returns.
C16_EmptyInput ==
  (op # "none" /\ Len(balls) = 0) =>
    /\ op \in {"plan_nearest_cluster", "plan_full_sweep", "select_best_cluster"}
         => ret = NoneValue
    /\ op = "find_all_clusters" => ret = <<>>
\* plan_full_sweep has returned None for no balls.
C16_Witness ==
  /\ op = "plan_full_sweep"
  /\ balls = <<>>
  /\ ret = NoneValue


\* C17: no planning call mutates its arguments: no step of a planner or of
\* a stage changes the caller's target array, reference position, input
\* tour or input waypoints.
C17_ArgumentsUnchanged ==
  [][/\ balls' = balls
     /\ robot_pos' = robot_pos
     /\ tour_in' = tour_in
     /\ waypoints' = waypoints]_vars
\* two_opt_improve has returned a tour it reversed a segment of, up to the
\* last point.
C17_Witness ==
  /\ t_pc = "done"
  /\ Len(tour_in) = MaxTour
  /\ tour[Len(tour)] # tour_in[Len(tour_in)]


\* C18: find_nearest_cluster returns exactly the targets chain-connected
\* (steps of at most the radius) to the target nearest to the reference
\* position, and that is the cluster of find_all_clusters holding this
\* nearest target.
C18_NearestComponent ==
  (op = "find_nearest_cluster" /\ Len(balls) > 0) =>
    LET nearest == ArgMinDist(balls, robot_pos)
        clusters == find_all_clusters(balls, radius)
    IN /\ Range(ret) = Component(balls, radius, nearest)
       /\ Increasing(ret, Len(balls))
       /\ \E c \in 1..Len(clusters) :
            nearest \in Range(clusters[c]) /\ clusters[c] = ret
\* The nearest target is not the first, and its cluster holds another
\* target but not all.
C18_Witness ==
  /\ op = "find_nearest_cluster"
  /\ Len(balls) = MaxBalls
  /\ ArgMinDist(balls, robot_pos) # 1
  /\ Len(ret) > 1
  /\ Len(ret) < Len(balls)


\* All targets on one ray from the reference position: the vectors from the
\* reference to any two targets are parallel and not opposite.
CollinearOneSide(pts, ref) ==
  \A a, b \in 1..Len(pts) :
    /\ (pts[a][1] - ref[1]) * (pts[b][2] - ref[2])
         = (pts[a][2] - ref[2]) * (pts[b][1] - ref[1])
    /\ (pts[a][1] - ref[1]) * (pts[b][1] - ref[1])
         + (pts[a][2] - ref[2]) * (pts[b][2] - ref[2]) >= 0

\* C19: in full-sweep mode, when all targets are collinear and on one side
\* of the reference position along that line, two_opt_improve leaves the
\* nearest-neighbour ordering unchanged and plan_full_sweep reports
\* improvement_pct = 0.
C19_CollinearNoImprovement ==
  (op = "plan_full_sweep" /\ Len(balls) > 0 /\ CollinearOneSide(balls, robot_pos)) =>
    LET stacked == <<robot_pos>> \o Rows(balls, nearest_neighbor_order(balls, robot_pos))
    IN /\ two_opt_improve(stacked) = stacked
       /\ ret.opt_waypoints = ret.nn_waypoints
       /\ ImprovementIsZero(ret.improvement_pct)
\* A sweep over MaxBalls targets on one ray, at two places or more, none at
\* the reference position, not given in nearest-neighbour order.
C19_Witness ==
  /\ op = "plan_full_sweep"
  /\ Len(balls) = MaxBalls
  /\ CollinearOneSide(balls, robot_pos)
  /\ Cardinality(Range(balls)) >= 2
  /\ robot_pos \notin Range(balls)
  /\ nearest_neighbor_order(balls, robot_pos) # Indices(balls)
  /\ PositiveLength(DistanceValue(ret.nn_distance))


\* Step s of an order over pts from start: the position the step starts
\* from and the indices not yet appended.
CurrentAt(pts, start, order, s) == IF s = 1 THEN start ELSE pts[order[s - 1]]
RemainingAt(pts, order, s) == (1..Len(pts)) \ {order[m] : m \in 1..(s - 1)}

\* C20: at every step of nearest_neighbor_order the point appended is a
\* remaining point at minimal distance from the current position (the start
\* at the first step, the point appended before afterwards), and among the
\* remaining points at that distance it is the first in input order.
C20_GreedyStep ==
  op = "nearest_neighbor_order" =>
    \A s \in 1..Len(ret) :
      LET current == CurrentAt(balls, robot_pos, ret, s)
          remaining == RemainingAt(balls, ret, s)
      IN /\ ret[s] \in remaining
         /\ \A i \in remaining :
              /\ Dist2(balls[ret[s]], current) <= Dist2(balls[i], current)
              /\ Dist2(balls[ret[s]], current) = Dist2(balls[i], current)
                   => ret[s] <= i
\* After the first step two remaining points at different places are
\* equally near to the current position.
C20_Witness ==
  /\ op = "nearest_neighbor_order"
  /\ Len(balls) = MaxBalls
  /\ \E s \in 2..Len(ret) :
       \E i \in RemainingAt(balls, ret, s) :
         /\ i # ret[s]
         /\ balls[i] # balls[ret[s]]
         /\ Dist2(balls[i], CurrentAt(balls, robot_pos, ret, s))
              = Dist2(balls[ret[s]], CurrentAt(balls, robot_pos, ret, s))


\* dist = w for the distance from point to the segment
ExactlyAt(point, seg_start, seg_end, w) ==
  LET d == point_to_segment_dist(point, seg_start, seg_end)
  IN d.num * w[2] * w[2] = w[1] * w[1] * d.den

\* dist >= w for the distance from point to the segment
AtLeastAt(point, seg_start, seg_end, w) ==
  LET d == point_to_segment_dist(point, seg_start, seg_end)
  IN d.num * w[2] * w[2] >= w[1] * w[1] * d.den

\* Every interior point of pts is at distance >= w from the segment joining
\* the points next before and next after it in pts.
NothingToRemove(pts, w) ==
  \A k \in 2..(Len(pts) - 1) : AtLeastAt(pts[k], pts[k - 1], pts[k + 1], w)

\* C21: the output of prune_waypoints is a fixed point of the removal rule:
\* every interior waypoint of the output is at distance >= w from the
\* segment joining its predecessor and successor in the output; a waypoint
\* at distance exactly w is kept, so an input that is such a fixed point is
\* returned whole.
C21_FixedPoint ==
  p_pc = "done" =>
    /\ NothingToRemove(Rows(waypoints, kept), half_width)
    /\ NothingToRemove(waypoints, half_width) => kept = Indices(waypoints)
\* An output that lost a waypoint and keeps an interior waypoint at exactly
\* the half-width from the segment of its neighbours.
C21_Witness ==
  /\ p_pc = "done"
  /\ Len(kept) < Len(waypoints)
  /\ \E k \in 2..(Len(kept) - 1) :
       ExactlyAt(waypoints[kept[k]], waypoints[kept[k - 1]],
                 waypoints[kept[k + 1]], half_width)


\* C22: for every tour of 4 points or more the tour two_opt_improve returns
\* is 2-opt locally optimal: no reversal of the segment after position i up
\* to position j, i + 1 < j, j the last position included, makes it
\* shorter, whatever swaps the sweeps before the last made.
C22_LocallyOptimal ==
  (t_pc = "done" /\ Len(tour_in) >= 4) => ~AdmitsImprovingSwap(tour)
\* A returned tour that no single reversal makes of the input: the sweeps
\* swapped more than once.
C22_Witness ==
  /\ t_pc = "done"
  /\ Len(tour_in) >= 4
  /\ tour # tour_in
  /\ \A i \in 1..Len(tour_in) : \A j \in (i + 2)..Len(tour_in) :
       ReverseSegment(tour_in, i, j) # tour


\* A path starts at the point from and ends at one of the points of to.
StartsAndEnds(path, from, to) ==
  LET points == PathValue(path)
  IN /\ Len(points) >= 2
     /\ points[1] = PathPoint(from)
     /\ \E b \in 1..Len(to) : points[Len(points)] = PathPoint(to[b])

C24_StatusFour == status \in {"idle", "planning", "executing", "done"}

\* C24, amended: after any sequence of key presses, clicks and step calls
\* the session's status is one of idle, planning, comparing, executing or
\* done; comparing is the status of the pause that follows a full-sweep
\* plan started with Space.
C24_StatusFive ==
  status \in {"idle", "planning", "comparing", "executing", "done"}

C24_Witness ==
  /\ status = "comparing" /\ phase = 2
  /\ comparison_timer < COMPARISON_PAUSE_SEC /\ Len(balls) > 0


\* C25: after any sequence of key presses, clicks and step calls, whenever
\* the status is executing, smooth_path is not None and
\* 0 <= path_idx <= len(smooth_path) - 1.
C25_IndexInPath ==
  status = "executing" =>
    /\ followed_path # NoneValue
    /\ 0 <= path_idx
    /\ path_idx <= Len(PathValue(followed_path)) - 1

\* The robot is part of the way along a path of a replan: some balls are
\* already collected, some are left, and the index is strictly inside.
C25_Witness ==
  /\ status = "executing" /\ followed_path # NoneValue
  /\ robot_pos # StartPos
  /\ Len(balls) > 0
  /\ path_idx > 0 /\ path_idx < Len(PathValue(followed_path)) - 1


\* C26: once Space has started a plan with at least one ball placed, if
\* the session is not paused and no further input arrives, repeated step
\* calls lead to status done with no ball left.
C26_RunCompletes ==
  (status \in {"comparing", "executing"} /\ ~paused /\ Len(balls) > 0)
    ~> (status = "done" /\ balls = <<>>)

\* A run that replanned has ended: the last path started away from the
\* reset position, and every ball is collected.
C26_Witness ==
  /\ status = "done" /\ balls = <<>> /\ ~paused
  /\ followed_path # NoneValue
  /\ followed_path.smooth_path_of[1] # StartPos
  /\ robot_pos # followed_path.smooth_path_of[1]

=============================================================================
